---- MODULE Spec2Model ----
(***************************************************************************)
(* Model of models.py: the two pydantic schemas Movie and Booking.         *)
(*                                                                         *)
(* The classes declare fields only; what construction and assignment do    *)
(* is the behaviour pydantic's BaseModel gives those declarations, in its  *)
(* default configuration (no Config / model_config is declared): lax type  *)
(* coercion, no defaults, extra keywords ignored, instances mutable and    *)
(* assignment not validated.  The repository pins no pydantic version, so  *)
(* the major version (1 or 2) is chosen once, in Init.                     *)
(***************************************************************************)
EXTENDS Integers, Sequences, FiniteSets, TLC

VARIABLES version, last, heap

vars == <<version, last, heap>>

\* ------------------------------------------------------------ bounds
MaxSeats == 2       \* entries of a seat_map given to Movie(...)
MaxHeap == 1        \* values the caller holds on to
StoreMaxSeats == 1  \* entries of a seat_map in the caller-state specification

\* ------------------------------------------------------------ Python values
Str(s) == [t |-> "str", s |-> s]
Bytes(s) == [t |-> "bytes", s |-> s]
PyInt(i) == [t |-> "int", i |-> i]
Bool(b) == [t |-> "bool", b |-> b]
None == [t |-> "NoneType"]
Dict(d) == [t |-> "dict", d |-> d]

\* The text of a bytes value that is not UTF-8 (b"\xff").
NotUtf8 == "<ff>"

Utf8Valid(x) == x.s # NotUtf8

\* str.lower() on the strings the model passes to it.
Lower(s) ==
  CASE s = "Yes" -> "yes"
    [] s = "YES" -> "yes"
    [] s = "True" -> "true"
    [] s = "False" -> "false"
    [] OTHER -> s

\* bool's lax vocabulary: BOOL_TRUE / BOOL_FALSE of pydantic.
BOOL_TRUE == {"1", "on", "t", "true", "y", "yes"}
BOOL_FALSE == {"0", "off", "f", "false", "n", "no"}

\* ------------------------------------------------------------ validators
Valid(v) == [ok |-> TRUE, v |-> v]
Invalid == [ok |-> FALSE]

\* A str validator that also converts numbers under version 2.
ValidateStr_coerce(ver, x) ==
  CASE x.t = "str" -> Valid(x)
    [] x.t = "bytes" -> IF Utf8Valid(x) THEN Valid(Str(x.s)) ELSE Invalid
    [] x.t = "int" -> Valid(Str(ToString(x.i)))
    [] x.t = "bool" -> Valid(Str(IF x.b THEN "True" ELSE "False"))
    [] OTHER -> Invalid

\* A str validator that lets numbers through unconverted.
ValidateStr_raw(ver, x) ==
  CASE x.t = "str" -> Valid(x)
    [] x.t = "bytes" -> IF Utf8Valid(x) THEN Valid(Str(x.s)) ELSE Invalid
    [] x.t = "int" -> IF ver = 1 THEN Valid(x) ELSE Invalid
    [] x.t = "bool" -> IF ver = 1 THEN Valid(x) ELSE Invalid
    [] OTHER -> Invalid

\* The validator of a field annotated `str`.
\*   version 1: str kept; int (and bool, an int) -> str(v); bytes decoded.
\*   version 2: str kept; bytes decoded; anything else rejected.
ValidateStr(ver, x) ==
  CASE x.t = "str" -> Valid(x)
    [] x.t = "bytes" -> IF Utf8Valid(x) THEN Valid(Str(x.s)) ELSE Invalid
    [] x.t = "int" -> IF ver = 1 THEN Valid(Str(ToString(x.i))) ELSE Invalid
    [] x.t = "bool" ->
         IF ver = 1 THEN Valid(Str(IF x.b THEN "True" ELSE "False")) ELSE Invalid
    [] OTHER -> Invalid

\* The text -> bool step shared by str and bytes inputs.
StrAsBool(s) ==
  IF Lower(s) \in BOOL_TRUE THEN Valid(Bool(TRUE))
  ELSE IF Lower(s) \in BOOL_FALSE THEN Valid(Bool(FALSE))
  ELSE Invalid

\* A bool validator that falls back on Python truthiness, bool(v).
ValidateBool_truthy(ver, x) ==
  CASE x.t = "bool" -> Valid(x)
    [] x.t = "str" -> Valid(Bool(x.s # ""))
    [] x.t = "bytes" -> Valid(Bool(x.s # ""))
    [] x.t = "int" -> Valid(Bool(x.i # 0))
    [] OTHER -> Invalid

\* The validator of a value annotated `bool` (the same in both versions on
\* these inputs): bool kept; text in the vocabulary, and 0 / 1, converted.
ValidateBool(ver, x) ==
  CASE x.t = "bool" -> Valid(x)
    [] x.t = "str" -> StrAsBool(x.s)
    [] x.t = "bytes" -> IF Utf8Valid(x) THEN StrAsBool(x.s) ELSE Invalid
    [] x.t = "int" ->
         IF x.i = 1 THEN Valid(Bool(TRUE))
         ELSE IF x.i = 0 THEN Valid(Bool(FALSE))
         ELSE Invalid
    [] OTHER -> Invalid

\* A Dict validator that keeps only the entries whose flag is true.
ValidateDict_truthy(ver, x) ==
  IF x.t # "dict" THEN Invalid
  ELSE IF \E k \in DOMAIN x.d :
            ~ValidateStr(ver, k).ok \/ ~ValidateBool(ver, x.d[k]).ok
  THEN Invalid
  ELSE LET kept == {k \in DOMAIN x.d : ValidateBool(ver, x.d[k]).v.b}
           keys == {ValidateStr(ver, k).v : k \in kept}
           src(k2) == CHOOSE k \in kept : ValidateStr(ver, k).v = k2
       IN Valid(Dict([k2 \in keys |-> ValidateBool(ver, x.d[src(k2)]).v]))

\* A Dict validator with a minimum length of one.
ValidateDict_nonempty(ver, x) ==
  IF x.t # "dict" THEN Invalid
  ELSE IF DOMAIN x.d = {} THEN Invalid
  ELSE IF \E k \in DOMAIN x.d :
            ~ValidateStr(ver, k).ok \/ ~ValidateBool(ver, x.d[k]).ok
  THEN Invalid
  ELSE LET keys == {ValidateStr(ver, k).v : k \in DOMAIN x.d}
           src(k2) == CHOOSE k \in DOMAIN x.d : ValidateStr(ver, k).v = k2
       IN Valid(Dict([k2 \in keys |-> ValidateBool(ver, x.d[src(k2)]).v]))

\* The validator of a field annotated Dict[str,bool]: the input must be a
\* dict; every key goes through the str validator and every value through
\* the bool validator; one failure fails the field; the result is a new dict
\* of the converted pairs.
ValidateDict(ver, x) ==
  IF x.t # "dict" THEN Invalid
  ELSE IF \E k \in DOMAIN x.d :
            ~ValidateStr(ver, k).ok \/ ~ValidateBool(ver, x.d[k]).ok
  THEN Invalid
  ELSE LET keys == {ValidateStr(ver, k).v : k \in DOMAIN x.d}
           src(k2) == CHOOSE k \in DOMAIN x.d : ValidateStr(ver, k).v = k2
       IN Valid(Dict([k2 \in keys |-> ValidateBool(ver, x.d[src(k2)]).v]))

\* ------------------------------------------------------------ the schemas
MovieFields == {"name", "id", "seat_map"}
BookingFields == {"movie_id", "seat_id"}

\* A field lookup that supplies an empty default for an absent keyword.
FieldValue_default(ver, kwargs, f) ==
  IF f \notin DOMAIN kwargs
  THEN (IF f = "seat_map" THEN Valid(Dict(<<>>)) ELSE Valid(Str("")))
  ELSE IF f = "seat_map" THEN ValidateDict(ver, kwargs[f])
  ELSE ValidateStr(ver, kwargs[f])

\* One declared field of a call: no field has a default, so an absent
\* keyword is an error; a present one goes through its type's validator.
FieldValue(ver, kwargs, f) ==
  IF f \notin DOMAIN kwargs THEN Invalid
  ELSE IF f = "seat_map" THEN ValidateDict(ver, kwargs[f])
  ELSE ValidateStr(ver, kwargs[f])

NoValue == [cls |-> "NoValue"]

\* A Movie that keeps the seat_map it was given when that field alone fails.
Movie_unvalidated(ver, kwargs) ==
  IF \A f \in {"name", "id"} : FieldValue(ver, kwargs, f).ok
  THEN IF FieldValue(ver, kwargs, "seat_map").ok
       THEN [cls |-> "Movie",
             name |-> FieldValue(ver, kwargs, "name").v,
             id |-> FieldValue(ver, kwargs, "id").v,
             seat_map |-> FieldValue(ver, kwargs, "seat_map").v]
       ELSE IF "seat_map" \in DOMAIN kwargs
       THEN [cls |-> "Movie",
             name |-> FieldValue(ver, kwargs, "name").v,
             id |-> FieldValue(ver, kwargs, "id").v,
             seat_map |-> kwargs.seat_map]
       ELSE NoValue
  ELSE NoValue

\* Movie(**kwargs): the Movie value, or NoValue when ValidationError is raised.
Movie(ver, kwargs) ==
  IF \A f \in MovieFields : FieldValue(ver, kwargs, f).ok
  THEN [cls |-> "Movie",
        name |-> FieldValue(ver, kwargs, "name").v,
        id |-> FieldValue(ver, kwargs, "id").v,
        seat_map |-> FieldValue(ver, kwargs, "seat_map").v]
  ELSE NoValue

\* Booking(**kwargs): the Booking value, or NoValue when ValidationError is raised.
Booking(ver, kwargs) ==
  IF \A f \in BookingFields : FieldValue(ver, kwargs, f).ok
  THEN [cls |-> "Booking",
        movie_id |-> FieldValue(ver, kwargs, "movie_id").v,
        seat_id |-> FieldValue(ver, kwargs, "seat_id").v]
  ELSE NoValue

Outcome(value) == IF value = NoValue THEN "ValidationError" ELSE "ok"

\* ------------------------------------------------------------ inputs
\* Marks a keyword the call does not pass; never a value of kwargs.
Absent == [t |-> "absent"]

\* kwargs of a call: the fields whose argument is not Absent.
Kwargs(args) == [f \in {g \in DOMAIN args : args[g] # Absent} |-> args[f]]

\* Arguments for a field annotated str.
FieldInputs ==
  {Str("m1"), Str(""), PyInt(123), Bytes("m1"), Bytes(NotUtf8), None, Absent}

\* Keys and values of a seat_map argument.  No two keys convert to the same
\* string, so the order of a dict's entries does not matter here.
SeatKeys == {Str("A1"), Str("A2"), PyInt(7), Bytes("B1")}
SeatVals == {Bool(TRUE), Bool(FALSE), Str("yes"), Str("free"), PyInt(1), PyInt(2)}

DictsOver(keys, vals, n) ==
  {Dict(d) : d \in UNION {[K -> vals] : K \in {S \in SUBSET keys : Cardinality(S) <= n}}}

SeatMapInputs == DictsOver(SeatKeys, SeatVals, MaxSeats) \cup {None, Absent}

MovieInputs ==
  {Kwargs([name |-> n, id |-> i, seat_map |-> m]) :
     n \in FieldInputs, i \in FieldInputs, m \in SeatMapInputs}

BookingInputs ==
  {Kwargs([movie_id |-> m, seat_id |-> s]) : m \in FieldInputs, s \in FieldInputs}

\* The smaller inputs of the specification that follows the caller's state.
StoreSeatKeys == {Str("A1"), Str("A2")}

StoreMovieInputs ==
  {Kwargs([name |-> n, id |-> i, seat_map |-> m]) :
     n \in {Str("Inception"), Absent},
     i \in {Str("m1"), Str("m2"), Absent},
     m \in DictsOver(StoreSeatKeys, {Bool(TRUE), Bool(FALSE), Str("free")},
                     StoreMaxSeats) \cup {Absent}}

StoreBookingInputs ==
  {Kwargs([movie_id |-> m, seat_id |-> s]) :
     m \in {Str("m1"), Str("m2"), Absent}, s \in {Str("A1"), Str("A2"), Absent}}

\* What the caller assigns to a field, and stores under a seat.
AssignValues == {PyInt(123)}
ItemValues == {Bool(TRUE), Bool(FALSE)}

\* ------------------------------------------------------------ state machine
Idle == [op |-> "none"]

Init ==
  /\ version \in {1, 2}
  /\ last = Idle
  /\ heap = <<>>

\* A Movie constructor that also replaces the held Movie of the same id.
ConstructMovie_registry(inputs) ==
  /\ last = Idle
  /\ \E kwargs \in inputs :
       LET value == Movie(version, kwargs)
       IN /\ last' = [op |-> "Movie", kwargs |-> kwargs,
                      outcome |-> Outcome(value), value |-> value]
          /\ heap' = [i \in DOMAIN heap |->
                        IF /\ value # NoValue
                           /\ heap[i].cls = "Movie"
                           /\ heap[i].id = value.id
                        THEN value ELSE heap[i]]
  /\ UNCHANGED version

\* x = Movie(**kwargs) raising or returning; `last` is the call and its result.
ConstructMovie(inputs) ==
  /\ last = Idle
  /\ \E kwargs \in inputs :
       last' = [op |-> "Movie", kwargs |-> kwargs,
                outcome |-> Outcome(Movie(version, kwargs)),
                value |-> Movie(version, kwargs)]
  /\ UNCHANGED <<version, heap>>

\* A Booking constructor that looks the movie and the seat up.
ConstructBooking_checked(inputs) ==
  /\ last = Idle
  /\ \E kwargs \in inputs :
       LET made == Booking(version, kwargs)
           known == /\ made # NoValue
                    /\ \E i \in DOMAIN heap :
                         /\ heap[i].cls = "Movie"
                         /\ heap[i].id = made.movie_id
                         /\ heap[i].seat_map.t = "dict"
                         /\ made.seat_id \in DOMAIN heap[i].seat_map.d
           value == IF known THEN made ELSE NoValue
       IN last' = [op |-> "Booking", kwargs |-> kwargs,
                   outcome |-> Outcome(value), value |-> value]
  /\ UNCHANGED <<version, heap>>

\* x = Booking(**kwargs) raising or returning.
ConstructBooking(inputs) ==
  /\ last = Idle
  /\ \E kwargs \in inputs :
       last' = [op |-> "Booking", kwargs |-> kwargs,
                outcome |-> Outcome(Booking(version, kwargs)),
                value |-> Booking(version, kwargs)]
  /\ UNCHANGED <<version, heap>>

\* The caller keeps the value a successful call returned.
Keep ==
  /\ last.op \in {"Movie", "Booking"}
  /\ last.outcome = "ok"
  /\ Len(heap) < MaxHeap
  /\ heap' = Append(heap, last.value)
  /\ last' = Idle
  /\ UNCHANGED version

\* The caller goes on without the result (or after the exception).
Discard ==
  /\ last # Idle
  /\ last' = Idle
  /\ UNCHANGED <<version, heap>>

Fields(obj) == IF obj.cls = "Movie" THEN MovieFields ELSE BookingFields

\* obj.field = v on a value the caller holds: BaseModel.__setattr__ with the
\* default configuration stores v as it is.
SetAttr ==
  /\ last = Idle
  /\ \E i \in 1..Len(heap) : \E f \in Fields(heap[i]) : \E v \in AssignValues :
       /\ heap' = [heap EXCEPT ![i][f] = v]
       /\ last' = [op |-> "setattr", target |-> i, field |-> f, arg |-> v]
  /\ UNCHANGED version

\* movie.seat_map[k] = v: the field holds a plain dict.
SetItem ==
  /\ last = Idle
  /\ \E i \in 1..Len(heap) : \E k \in StoreSeatKeys : \E v \in ItemValues :
       /\ heap[i].cls = "Movie"
       /\ heap[i].seat_map.t = "dict"
       /\ LET d == heap[i].seat_map.d
          IN heap' = [heap EXCEPT ![i].seat_map =
                        Dict([j \in DOMAIN d \cup {k} |-> IF j = k THEN v ELSE d[j]])]
       /\ last' = [op |-> "setitem", target |-> i, key |-> k, arg |-> v]
  /\ UNCHANGED version

\* del movie.seat_map[k]
DelItem ==
  /\ last = Idle
  /\ \E i \in 1..Len(heap) : \E k \in StoreSeatKeys :
       /\ heap[i].cls = "Movie"
       /\ heap[i].seat_map.t = "dict"
       /\ k \in DOMAIN heap[i].seat_map.d
       /\ LET d == heap[i].seat_map.d
          IN heap' = [heap EXCEPT ![i].seat_map =
                        Dict([j \in DOMAIN d \ {k} |-> d[j]])]
       /\ last' = [op |-> "delitem", target |-> i, key |-> k]
  /\ UNCHANGED version

\* Construction alone, over the wide inputs.
Next ==
  \/ ConstructMovie(MovieInputs)
  \/ ConstructBooking(BookingInputs)
  \/ Discard

Spec == Init /\ [][Next]_vars

\* Construction together with the caller's state.
NextStore ==
  \/ ConstructMovie(StoreMovieInputs)
  \/ ConstructBooking(StoreBookingInputs)
  \/ Keep
  \/ Discard
  \/ SetAttr
  \/ SetItem
  \/ DelItem

SpecStore == Init /\ [][NextStore]_vars

\* ------------------------------------------------------------ properties
Failed == last.outcome = "ValidationError" /\ last.value = NoValue
Passes(f) == f \in DOMAIN last.kwargs
IsStr(x) == x.t = "str"
SeatArgIsDict == Passes("seat_map") /\ last.kwargs.seat_map.t = "dict"

\* The words the bool conversion reads as a flag, and the integers it reads.
BoolWords ==
  {"0", "1", "on", "off", "t", "f", "true", "false", "y", "n", "yes", "no"}
NeverABool(x) ==
  \/ x.t = "str" /\ x.s \notin BoolWords
  \/ x.t = "int" /\ x.i \notin {0, 1}
  \/ x.t = "NoneType"
ReadAsBool(x) ==
  \/ x.t = "bool"
  \/ x.t = "str" /\ x.s \in BoolWords
  \/ x.t = "int" /\ x.i \in {0, 1}
FlagOf(x) ==
  IF x.t = "bool" THEN x
  ELSE IF x.t = "str" THEN Bool(x.s \in {"1", "on", "t", "true", "y", "yes"})
  ELSE Bool(x.i = 1)

\* What no version converts to a string, and what the running version does not.
NeverAStr(x) == x.t = "NoneType" \/ (x.t = "bytes" /\ x.s = NotUtf8)
NotAStrHere(x) == NeverAStr(x) \/ (x.t = "int" /\ version = 2)

C2_ValidRoundTrip ==
  /\ (/\ last.op = "Movie"
      /\ DOMAIN last.kwargs = MovieFields
      /\ IsStr(last.kwargs.name) /\ IsStr(last.kwargs.id)
      /\ last.kwargs.seat_map.t = "dict"
      /\ \A k \in DOMAIN last.kwargs.seat_map.d :
           IsStr(k) /\ last.kwargs.seat_map.d[k].t = "bool")
     => /\ last.outcome = "ok"
        /\ last.value = [cls |-> "Movie", name |-> last.kwargs.name,
                         id |-> last.kwargs.id, seat_map |-> last.kwargs.seat_map]
  /\ (/\ last.op = "Booking"
      /\ DOMAIN last.kwargs = BookingFields
      /\ IsStr(last.kwargs.movie_id) /\ IsStr(last.kwargs.seat_id))
     => /\ last.outcome = "ok"
        /\ last.value = [cls |-> "Booking", movie_id |-> last.kwargs.movie_id,
                         seat_id |-> last.kwargs.seat_id]

C2_Witness ==
  /\ last.op = "Movie"
  /\ last.outcome = "ok"
  /\ last.kwargs.seat_map =
       Dict([k \in {Str("A1"), Str("A2")} |-> Bool(k = Str("A1"))])
  /\ last.value.seat_map.d[Str("A2")] = Bool(FALSE)

C4_MissingFieldFails ==
  /\ (last.op = "Movie" /\ DOMAIN last.kwargs # MovieFields) => Failed
  /\ (last.op = "Booking" /\ DOMAIN last.kwargs # BookingFields) => Failed

C4_Witness ==
  /\ last.op = "Movie"
  /\ last.kwargs = [name |-> Str("m1"), id |-> Str("m1")]
  /\ Failed

C9_EmptySeatMapAccepted ==
  (/\ last.op = "Movie"
   /\ DOMAIN last.kwargs = MovieFields
   /\ IsStr(last.kwargs.name) /\ IsStr(last.kwargs.id)
   /\ last.kwargs.seat_map = Dict(<<>>))
  => /\ last.outcome = "ok"
     /\ last.value.seat_map.t = "dict"
     /\ DOMAIN last.value.seat_map.d = {}

C9_Witness ==
  /\ last.op = "Movie"
  /\ last.kwargs = [name |-> Str("m1"), id |-> Str("m1"), seat_map |-> Dict(<<>>)]
  /\ last.outcome = "ok"
  /\ last.value.seat_map = Dict(<<>>)

\* C10 as stated: no Movie that construction returns has the empty name.
C10_NameNonEmpty ==
  (last.op = "Movie" /\ last.outcome = "ok") => last.value.name # Str("")

\* C10, amended: the name of every Movie that construction returns is a
\* string, and it may be the empty one: a call that is valid but for
\* name = "" succeeds and the value's name is "".
C10_NameIsStr ==
  last.op = "Movie" =>
    /\ last.outcome = "ok" => IsStr(last.value.name)
    /\ (/\ DOMAIN last.kwargs = MovieFields
        /\ last.kwargs.name = Str("")
        /\ IsStr(last.kwargs.id)
        /\ last.kwargs.seat_map = Dict(<<>>))
       => last.outcome = "ok" /\ last.value.name = Str("")

C10_Witness ==
  /\ last.op = "Movie"
  /\ last.outcome = "ok"
  /\ last.kwargs.name = Str("")
  /\ last.value.name = Str("")

\* All declared fields present and of the declared types.
WellShaped(obj) ==
  IF obj.cls = "Movie"
  THEN /\ IsStr(obj.name) /\ IsStr(obj.id)
       /\ obj.seat_map.t = "dict"
       /\ \A k \in DOMAIN obj.seat_map.d : IsStr(k) /\ obj.seat_map.d[k].t = "bool"
  ELSE /\ obj.cls = "Booking"
       /\ IsStr(obj.movie_id) /\ IsStr(obj.seat_id)

C7_BookingIgnoresMovies ==
  (/\ last.op = "Booking"
   /\ DOMAIN last.kwargs = BookingFields
   /\ IsStr(last.kwargs.movie_id) /\ IsStr(last.kwargs.seat_id))
  => /\ last.outcome = "ok"
     /\ last.value = [cls |-> "Booking", movie_id |-> last.kwargs.movie_id,
                      seat_id |-> last.kwargs.seat_id]

C7_Witness ==
  /\ last.op = "Booking"
  /\ last.outcome = "ok"
  /\ Len(heap) > 0
  /\ \A i \in 1..Len(heap) :
       heap[i].cls = "Movie" /\ heap[i].id # last.value.movie_id

\* C8 as stated: a construction that fails leaves no value and changes no
\* earlier value, and every value that exists has its full shape.
C8_AllValuesWellShaped ==
  [][/\ (last' # last /\ last'.op \in {"Movie", "Booking"}
           /\ last'.outcome = "ValidationError")
        => last'.value = NoValue /\ heap' = heap
     /\ \A i \in 1..Len(heap') : WellShaped(heap'[i])]_vars

\* C8, amended: a construction that fails leaves no value and changes no
\* earlier value, and every value has its full shape when construction
\* returns it; a later assignment by the caller is not validated and can
\* leave a held value with a field of another type.
C8_AllOrNothing ==
  [][(last' # last /\ last'.op \in {"Movie", "Booking"}) =>
       /\ heap' = heap
       /\ last'.outcome = "ValidationError" => last'.value = NoValue
       /\ last'.outcome = "ok" => WellShaped(last'.value)]_vars

C8_Witness ==
  /\ last.op = "Movie"
  /\ Failed
  /\ Passes("name") /\ IsStr(last.kwargs.name)
  /\ Passes("id") /\ IsStr(last.kwargs.id)
  /\ Passes("seat_map")
  /\ Len(heap) > 0

====
